---- MODULE Spec2Model ----
(***************************************************************************)
(* Model of the legal complaint analyzer: the two-strategy PDF text        *)
(* extractor (src/src/pdf_extractor.py), the analysis requester            *)
(* (src/src/ai_analyzer.py) and the processing pipeline                    *)
(* LegalComplaintProcessor.process_complaint (src/main.py) writing through *)
(* DatabaseManager (src/src/database.py).                                  *)
(*                                                                         *)
(* Texts are sequences of one-character strings.  Optional values          *)
(* (Python None) are records with an isNone flag.                          *)
(***************************************************************************)
EXTENDS Integers, Sequences, FiniteSets, TLC

VARIABLES
    fileExists,        \* os.path.exists(pdf_path)
    doc,               \* what the two extraction back-ends yield for the file
    xpc,               \* position inside PDFExtractor.extract_text
    xtext,             \* local variable text of extract_text
    xresult,           \* return value of extract_text
    xcalls,            \* trace of strategy invocations, in call order
    pc,                \* position inside process_complaint
    extracted_text,    \* local of process_complaint
    complaint_id,      \* local of process_complaint, 0 is None
    analysis_id,       \* local of process_complaint, 0 is None
    analysis_result,   \* local of process_complaint
    idx,               \* loop index of the article / recommendation loops
    exc,               \* message of the exception being handled, "" if none
    complaints,        \* table complaints
    analysis_results,  \* table analysis_results
    legal_articles,    \* table legal_articles
    recommendations,   \* table recommendations
    analysis_logs,     \* table analysis_logs
    results,           \* result records returned to the caller
    escaped,           \* TRUE when an exception left process_complaint
    response,          \* outcome of the inference call
    inferCalls,        \* number of requests sent to the inference endpoint
    faults,            \* store writes that were rejected in this run
    vdoc,              \* argument of LegalAIAnalyzer.validate_analysis
    vresult,           \* outcome of validate_analysis
    fs,                \* regular files at the paths the upload handler touches
    requests,          \* the /analyze requests being served
    processor,         \* TRUE when app_state holds a processor
    clock,             \* datetime.now(), in ticks
    runs               \* concurrent pipeline runs at their step 2

vars == <<fileExists, doc, xpc, xtext, xresult, xcalls, pc, extracted_text,
          complaint_id, analysis_id, analysis_result, idx, exc, complaints,
          analysis_results, legal_articles, recommendations, analysis_logs,
          results, escaped, response, inferCalls, faults, vdoc, vresult, fs, requests, processor,
          clock, runs>>

xvars == <<xpc, xtext, xresult, xcalls>>

storeVars == <<complaints, analysis_results, legal_articles, recommendations,
               analysis_logs>>

pipeVars == <<pc, extracted_text, complaint_id, analysis_id, analysis_result,
              idx, exc, results, escaped, response, inferCalls, faults>>

validatorVars == <<vdoc, vresult>>

\* the state outside one run of process_complaint
serverVars == <<fs, requests, processor>>

intakeVars == <<clock, runs>>

sideVars == <<validatorVars, serverVars, intakeVars>>

\* the state of one run of process_complaint and of the store
coreVars == <<fileExists, doc, xvars, pipeVars, storeVars>>

(***************************************************************************)
(* Bounds of the model.                                                    *)
(***************************************************************************)
MaxPages == 2

(***************************************************************************)
(* Text primitives (Python str).                                           *)
(***************************************************************************)
Rep(c, n) == [i \in 1..n |-> c]

IsWs(c) == c \in {" ", "\n"}

Min(S) == CHOOSE x \in S : \A y \in S : x <= y

\* str.lstrip()
RECURSIVE LStrip(_)
LStrip(s) == IF s = <<>> \/ ~IsWs(s[1]) THEN s ELSE LStrip(Tail(s))

\* str.rstrip()
RECURSIVE RStrip(_)
RStrip(s) == IF s = <<>> \/ ~IsWs(s[Len(s)]) THEN s ELSE RStrip(SubSeq(s, 1, Len(s) - 1))

\* str.strip(): drop leading and trailing whitespace
Strip(s) == RStrip(LStrip(s))

\* str.startswith(p)
StartsWith(s, p) == Len(s) >= Len(p) /\ SubSeq(s, 1, Len(p)) = p

RECURSIVE Flatten(_)
Flatten(ss) == IF ss = <<>> THEN <<>> ELSE Head(ss) \o Flatten(Tail(ss))

\* Optional[str]
None == [isNone |-> TRUE, text |-> <<>>]

Some(t) == [isNone |-> FALSE, text |-> t]

\* Python truthiness of an Optional[str]
Truthy(o) == ~o.isNone /\ o.text # <<>>

(***************************************************************************)
(* PDFExtractor                                                            *)
(***************************************************************************)
min_text_threshold == 100

\* a page text: lead whitespace, n visible characters, trail whitespace
Pad(lead, n, trail) == Rep(" ", lead) \o Rep("x", n) \o Rep("\n", trail)

PageTexts == {Pad(0, 49, 0), Pad(0, 50, 1), Pad(0, 99, 1), Pad(1, 100, 0)}

RECURSIVE SeqsUpTo(_, _)
SeqsUpTo(S, n) ==
    IF n = 0 THEN {<<>>}
    ELSE LET shorter == SeqsUpTo(S, n - 1)
         IN  shorter \cup {Append(s, x) : s \in {t \in shorter : Len(t) = n - 1}, x \in S}

\* sequences over S of length n
SeqsOfLen(S, n) == {s \in SeqsUpTo(S, n) : Len(s) = n}

\* one back-end's view of a document of n pages: it raises, or yields one
\* text per page
Layers(n) == {[ok |-> FALSE, pages |-> <<>>]}
             \cup {[ok |-> TRUE, pages |-> p] : p \in SeqsOfLen(PageTexts, n)}

\* documents of up to MaxPages pages as the two back-ends see them
Docs == UNION {[digital : Layers(n), ocr : Layers(n)] : n \in 0..MaxPages}

\* documents used when the extractor runs as step 1 of the pipeline
PipelineDocs ==
    LET bad  == [ok |-> FALSE, pages |-> <<>>]
        long == [ok |-> TRUE, pages |-> <<Pad(1, 100, 0)>>]
        tiny == [ok |-> TRUE, pages |-> <<Pad(0, 99, 1)>>]
    IN  {[digital |-> long, ocr |-> bad], [digital |-> tiny, ocr |-> long],
         [digital |-> bad, ocr |-> tiny], [digital |-> bad, ocr |-> bad]}

\* text += page.get_text() over the pages
DigitalRaw(layer) == Flatten(layer.pages)

\* text += page_text + "\n\n" over the page images
OcrRaw(layer) ==
    Flatten([i \in 1..Len(layer.pages) |-> layer.pages[i] \o <<"\n", "\n">>])

MeetsThresholdOff(text) == Len(Strip(text)) > min_text_threshold

MeetsThreshold(text) == Len(Strip(text)) >= min_text_threshold

extract_text_digital(layer) ==
    IF ~layer.ok THEN None
    ELSE IF MeetsThreshold(DigitalRaw(layer)) THEN Some(Strip(DigitalRaw(layer)))
    ELSE None

extract_text_ocr_unstripped(layer) ==
    IF ~layer.ok THEN None
    ELSE IF MeetsThreshold(OcrRaw(layer)) THEN Some(OcrRaw(layer))
    ELSE None

extract_text_ocr(layer) ==
    IF ~layer.ok THEN None
    ELSE IF MeetsThreshold(OcrRaw(layer)) THEN Some(Strip(OcrRaw(layer)))
    ELSE None

\* a step of extract_text leaves its caller and the store alone
CallerUnchanged ==
    /\ UNCHANGED <<fileExists, doc>>
    /\ UNCHANGED pipeVars
    /\ UNCHANGED storeVars
    /\ UNCHANGED sideVars

\* extract_text, lines 98-102: the path is checked before any strategy runs
ExtractStart ==
    /\ xpc = "start"
    /\ IF fileExists
       THEN xpc' = "digital" /\ xresult' = xresult
       ELSE xpc' = "done" /\ xresult' = None
    /\ UNCHANGED <<xtext, xcalls>>
    /\ CallerUnchanged

\* extract_text, lines 104-108: strategy A and the test of its yield
ExtractDigital ==
    /\ xpc = "digital"
    /\ LET text == extract_text_digital(doc.digital)
       IN  /\ xtext' = text
           /\ xcalls' = Append(xcalls, "digital")
           /\ IF Truthy(text) /\ MeetsThreshold(text.text)
              THEN xpc' = "done" /\ xresult' = text
              ELSE xpc' = "ocr" /\ xresult' = xresult
    /\ CallerUnchanged

\* extract_text, lines 110-118: strategy B
ExtractOcr ==
    /\ xpc = "ocr"
    /\ LET text == extract_text_ocr(doc.ocr)
       IN  /\ xtext' = text
           /\ xcalls' = Append(xcalls, "ocr")
           /\ xpc' = "done"
           /\ xresult' = IF Truthy(text) THEN text ELSE None
    /\ CallerUnchanged

(***************************************************************************)
(* LegalAIAnalyzer                                                         *)
(***************************************************************************)
MaxArticles == 2

MaxRecs == 1

\* str.split('\n')
RECURSIVE SplitLines(_)
SplitLines(s) ==
    LET nl == {i \in 1..Len(s) : s[i] = "\n"}
    IN  IF nl = {} THEN <<s>>
        ELSE <<SubSeq(s, 1, Min(nl) - 1)>>
             \o SplitLines(SubSeq(s, Min(nl) + 1, Len(s)))

\* '\n'.join(lines)
RECURSIVE JoinLines(_)
JoinLines(lines) ==
    IF lines = <<>> THEN <<>>
    ELSE IF Len(lines) = 1 THEN lines[1]
    ELSE lines[1] \o <<"\n">> \o JoinLines(Tail(lines))

\* the three-backquote fence marker; the backquote character is written "'"
Fence == <<"'", "'", "'">>

JsonTag == <<"j", "s", "o", "n">>

\* lines[1:-1] with the closing line kept: the slice a missing "-1" gives
InnerLinesKeepLast(lines) == SubSeq(lines, 2, Len(lines))

\* lines[1:-1]
InnerLines(lines) == SubSeq(lines, 2, Len(lines) - 1)

\* analyze, lines 190-195: remove markdown code blocks if present
StripFence(result_text) ==
    IF StartsWith(result_text, Fence)
    THEN LET inner == JoinLines(InnerLines(SplitLines(result_text)))
         IN  IF StartsWith(inner, JsonTag)
             THEN Strip(SubSeq(inner, 5, Len(inner)))
             ELSE inner
    ELSE result_text

\* JSON texts over a small alphabet: "k" is a string literal, "1" a number
\* literal; whitespace may separate tokens.
Tokens(s) == SelectSeq(s, LAMBDA c : ~IsWs(c))

RECURSIVE ParseValue(_, _), ParseMembers(_, _), ParseElements(_, _)
\* index after the value that starts at t[i], 0 when there is none
ParseValue(t, i) ==
    IF i = 0 \/ i > Len(t) THEN 0
    ELSE IF t[i] \in {"k", "1"} THEN i + 1
    ELSE IF t[i] = "{"
         THEN IF i + 1 <= Len(t) /\ t[i + 1] = "}" THEN i + 2
              ELSE ParseMembers(t, i + 1)
    ELSE IF t[i] = "["
         THEN IF i + 1 <= Len(t) /\ t[i + 1] = "]" THEN i + 2
              ELSE ParseElements(t, i + 1)
    ELSE 0

\* members of an object, up to and including the closing brace
ParseMembers(t, i) ==
    IF i + 1 > Len(t) \/ t[i] # "k" \/ t[i + 1] # ":" THEN 0
    ELSE LET j == ParseValue(t, i + 2)
         IN  IF j = 0 \/ j > Len(t) THEN 0
             ELSE IF t[j] = "}" THEN j + 1
             ELSE IF t[j] = "," THEN ParseMembers(t, j + 1)
             ELSE 0

\* elements of an array, up to and including the closing bracket
ParseElements(t, i) ==
    LET j == ParseValue(t, i)
    IN  IF j = 0 \/ j > Len(t) THEN 0
        ELSE IF t[j] = "]" THEN j + 1
        ELSE IF t[j] = "," THEN ParseElements(t, j + 1)
        ELSE 0

\* json.loads: the parsed structure is the token list of a well-formed text
json_loads(s) ==
    LET t == Tokens(s)
    IN  IF ParseValue(t, 1) = Len(t) + 1
        THEN [ok |-> TRUE, value |-> t]
        ELSE [ok |-> FALSE, value |-> <<>>]

\* a parsed value that supports item assignment with a string key
IsObject(value) == value # <<>> /\ value[1] = "{"

\* documents the endpoint may put in its reply
StructuredDocs ==
    { <<"{", "}">>,
      <<"{", "k", ":", "1", "}">>,
      <<"{", "\n", " ", "k", ":", " ", "1", "\n", "}">>,
      <<"{", "k", ":", "{", "k", ":", "k", "}", ",", "\n", "k", ":", "[", "1", ",", "1", "]", "}">>,
      <<"{", "\n", "k", ":", "[", "]", ",", "\n", "k", ":", "k", "\n", "}", "\n">> }

OtherDocs ==
    { <<"[", "1", "]">>, <<"k">>, <<>>,
      <<"{", "k", ":", "1">>, <<"{", "k", "\n", "1", "}">>,
      <<"{", "k", ":", "1", ",", "}">>, <<"j", "s", "o", "n">> }

ReplyDocs == StructuredDocs \cup OtherDocs

\* a fenced code block: opening fence line with optional tag, closing fence
FenceForms == {"bare", "json", "js", "json_padded"}

OtherForms == {"plain", "plain_padded", "tag_line", "no_close", "close_same_line",
               "open_same_line"}

Wrap(form, d) ==
    CASE form = "bare" -> Fence \o <<"\n">> \o d \o <<"\n">> \o Fence
      [] form = "json" -> Fence \o JsonTag \o <<"\n">> \o d \o <<"\n">> \o Fence
      [] form = "js" -> Fence \o <<"j", "s">> \o <<"\n">> \o d \o <<"\n">> \o Fence
      [] form = "json_padded" ->
            <<"\n">> \o Fence \o JsonTag \o <<" ", "\n">> \o d \o <<"\n">> \o Fence \o <<" ", "\n">>
      [] form = "plain" -> d
      [] form = "plain_padded" -> <<" ", "\n">> \o d \o <<"\n">>
      [] form = "tag_line" -> Fence \o <<"\n">> \o JsonTag \o <<"\n">> \o d \o <<"\n">> \o Fence
      [] form = "no_close" -> Fence \o JsonTag \o <<"\n">> \o d
      [] form = "close_same_line" -> Fence \o JsonTag \o <<"\n">> \o d \o Fence
      [] form = "open_same_line" -> Fence \o JsonTag \o <<" ">> \o d \o <<"\n">> \o Fence

Article(has, num, score, level, atype, prim) ==
    [has |-> has, pasal_number |-> num, confidence_score |-> score,
     confidence_level |-> level, article_type |-> atype, is_primary |-> prim]

\* entries of the article lists; confidence_score is in tenths (9 is 0.9);
\* an article_type key with the value "" stands for a key that is present
\* with a falsy value (null, as the prompt asks for missing data, or "")
ArticleEntries ==
    { Article({"pasal_number", "sumber_hukum", "confidence_score", "confidence_level"},
              "362", 9, "Tinggi", "", FALSE),
      Article({"pasal_number", "sumber_hukum", "confidence_score", "article_type",
               "is_primary"},
              "378", 5, "", "alternatif", TRUE),
      Article({"pasal_number", "sumber_hukum", "confidence_level", "article_type"},
              "263", 0, "Pasti", "", FALSE),
      Article({"pasal_number", "sumber_hukum", "confidence_score", "confidence_level"},
              "351", 15, "Tinggi", "", FALSE) }

Rec(has, text, priority) == [has |-> has, text |-> text, priority |-> priority]

\* entries of the recommendations list
RecEntries ==
    { Rec({"text", "priority"}, "periksa saksi", "Tinggi"),
      Rec({"text"}, "lengkapi bukti", ""),
      Rec({"priority"}, "", "Rendah") }

\* shape of the nested blocks (pelapor, summary, quality, ...) of the parsed
\* object: an object, an absent key, a JSON null, an object holding a field
\* the AnalysisResult model rejects (such as a kejadian.tanggal that is no
\* date), or an object whose quality and urgency words are not among those
\* the prompt allows
BlockShapes == {"object", "absent", "null", "badfield", "offvocab"}

EmptyContent ==
    [blocks |-> "object", pasal_utama |-> <<>>, pasal_alternatif |-> <<>>,
     recommendations |-> <<>>]

\* the values held by the keys of a parsed reply; MaxArticles bounds the
\* total number of article entries, MaxRecs the number of recommendations
Contents ==
    UNION { { [blocks |-> b, pasal_utama |-> u, pasal_alternatif |-> a,
               recommendations |-> r] :
                b \in BlockShapes,
                a \in SeqsUpTo(ArticleEntries, MaxArticles - Len(u)),
                r \in SeqsUpTo(RecEntries, MaxRecs) } :
            u \in SeqsUpTo(ArticleEntries, MaxArticles) }

Reply(ok, text, content) == [ok |-> ok, text |-> text, content |-> content]

NoReply == Reply(FALSE, <<>>, EmptyContent)

\* replies of the inference endpoint when analyze is exercised on its own
AnalyzeReplies ==
    {NoReply} \cup {Reply(TRUE, Wrap(f, d), EmptyContent) :
                        f \in FenceForms \cup OtherForms, d \in ReplyDocs}

\* replies of the inference endpoint inside a pipeline run
PipelineReplies ==
    LET good == <<"{", "\n", " ", "k", ":", " ", "1", "\n", "}">>
    IN  {NoReply}
        \cup {Reply(TRUE, good, c) : c \in Contents}
        \cup {Reply(TRUE, Wrap("json", good), EmptyContent),
              Reply(TRUE, Wrap("no_close", good), EmptyContent),
              Reply(TRUE, <<"[", "1", "]">>, EmptyContent)}

\* int(time.time() - start_time)
Durations == {0, 3}

\* the duration of the call inside a pipeline run
PipelineDurations == {3}

\* the model the analyzer is constructed with (__init__, line 32)
configured_model == "gemini-2.0-flash"

NoMetadata == [analysis_duration_seconds |-> 0, analyzed_at |-> "", model |-> ""]

\* raised names the exception that left analyze, "" when it returned
NoAnalysis ==
    [isNone |-> TRUE, doc |-> <<>>, content |-> EmptyContent, metadata |-> NoMetadata,
     raised |-> ""]

\* a second request after a failed one
RequestsIssuedRetry(reply) == IF reply.ok THEN 1 ELSE 2

\* lines 178-185: generate_content is called once, outside any loop
RequestsIssued(reply) == 1

\* lines 174-206: the exception the try body raises, "" when it runs
\* through: the call fails, json.loads raises JSONDecodeError, or the item
\* assignment of line 202 raises TypeError on a value that is no object
TryBodyRaises(reply) ==
    IF ~reply.ok THEN "call"
    ELSE LET parsed == json_loads(StripFence(Strip(reply.text)))
         IN  IF ~parsed.ok THEN "json"
             ELSE IF ~IsObject(parsed.value) THEN "type"
             ELSE ""

\* an analyze that only expects parse errors
AnalyzeCatchesJsonOnly(kind) == kind = "json"

\* lines 211-218: except json.JSONDecodeError, then except Exception
AnalyzeCatches(kind) == kind \in {"call", "json", "type"}

\* LegalAIAnalyzer.analyze: one request, fence removal, json.loads, metadata;
\* a caught exception ends in None
analyze(reply, duration) ==
    LET e == TryBodyRaises(reply)
    IN  IF e # ""
        THEN IF AnalyzeCatches(e) THEN NoAnalysis ELSE [NoAnalysis EXCEPT !.raised = e]
        ELSE [isNone |-> FALSE,
              doc |-> json_loads(StripFence(Strip(reply.text))).value,
              content |-> reply.content,
              metadata |-> [analysis_duration_seconds |-> duration,
                            analyzed_at |-> "isoformat",
                            model |-> "gemini-1.5-pro-latest"],
              raised |-> ""]

\* the top-level keys of the analysis schema (create_analysis_prompt)
TopLevelKeys ==
    {"pelapor", "terlapor", "kejadian", "kronologi", "jenis_kasus",
     "pasal_utama", "summary", "recommendations"}

\* Dict[str, Any] arguments, seen as the set of their keys, and None
NoDoc == [isNone |-> TRUE, keys |-> {}]

ValidatorInputs == {NoDoc} \cup {[isNone |-> FALSE, keys |-> k] : k \in SUBSET TopLevelKeys}

\* the list without its last key
required_keys_short ==
    <<"pelapor", "terlapor", "kejadian", "jenis_kasus", "pasal_utama">>

\* validate_analysis, line 230
required_keys ==
    <<"pelapor", "terlapor", "kejadian", "jenis_kasus", "pasal_utama", "summary">>

Pending == [state |-> "pending", value |-> FALSE]

Returned(b) == [state |-> "returned", value |-> b]

Raised == [state |-> "raised", value |-> FALSE]

\* lines 232-237: the loop over required_keys from position i on
RECURSIVE CheckKeysFrom(_, _)
CheckKeysFrom(keys, i) ==
    IF i > Len(required_keys) THEN Returned(TRUE)
    ELSE IF required_keys[i] \notin keys THEN Returned(FALSE)
    ELSE CheckKeysFrom(keys, i + 1)

\* validate_analysis: "key not in analysis" raises TypeError when analysis
\* is None, and is a plain membership test on a dict
validate_analysis(analysis) ==
    IF analysis.isNone THEN Raised ELSE CheckKeysFrom(analysis.keys, 1)

\* one call of validate_analysis
Validate ==
    /\ vresult = Pending
    /\ vresult' = validate_analysis(vdoc)
    /\ UNCHANGED vdoc
    /\ UNCHANGED <<coreVars, serverVars, intakeVars>>

(***************************************************************************)
(* DatabaseManager                                                         *)
(***************************************************************************)
\* update_complaint_status, lines 73-82, with the failure re-raised
StatusUpdateOutcomeRaising(ok) == IF ok THEN "updated" ELSE "raised"

\* update_complaint_status, lines 73-82: a rejected write is printed and
\* answered with False, never raised
StatusUpdateOutcome(ok) == IF ok THEN "updated" ELSE "swallowed"

\* log_action, lines 234-249, with the failure re-raised
LogOutcomeRaising(ok) == IF ok THEN "written" ELSE "raised"

\* log_action, lines 234-249: a rejected write is printed and answered with
\* False, never raised
LogOutcome(ok) == IF ok THEN "written" ELSE "swallowed"

\* a create_* that hands back no usable id
ReturnedIdNone(row) == 0

\* create_complaint line 47, create_analysis_result: return response.data[0],
\* from which the caller takes ['id']
ReturnedId(row) == row.id

\* the table after .update({'status': status}).eq('id', id)
SetStatus(table, id, status) ==
    [i \in DOMAIN table |->
        IF table[i].id = id THEN [table[i] EXCEPT !.status = status] ELSE table[i]]

LogEntry(cid, aid, action, by, details) ==
    [complaint_id |-> cid, analysis_id |-> aid, action |-> action,
     action_by |-> by, details |-> details]

(***************************************************************************)
(* LegalComplaintProcessor.process_complaint                               *)
(***************************************************************************)
ResultFail(msg) == [success |-> FALSE, error |-> msg]

ResultOk(cid, number, aid) ==
    [success |-> TRUE, complaint_id |-> cid, complaint_number |-> number,
     analysis_id |-> aid]

Exc(kind, msg) == [kind |-> kind, msg |-> msg]

NoExc == Exc("", "")

\* an outer handler that only expects persistence errors
OuterCatchesStoreOnly(kind) == kind = "store"

\* line 257, except Exception: every exception kind raised in the try body
OuterCatches(kind) ==
    kind \in {"store", "attribute", "validation", "type", "call", "json"}

\* the step raises e: control moves to the outer handler, or leaves the
\* function when the handler does not catch it
Raise(e) ==
    IF OuterCatches(e.kind)
    THEN pc' = "handler" /\ exc' = e /\ escaped' = escaped
    ELSE pc' = "done" /\ exc' = e /\ escaped' = TRUE

Return(r) == results' = Append(results, r) /\ pc' = "done"

\* a path test that accepts every path
PathUsableAlways(exists) == TRUE

\* line 59: os.path.exists(pdf_path)
PathUsable(exists) == exists

\* lines 58-65
ValidateInput ==
    /\ pc = "start"
    /\ IF ~PathUsable(fileExists)
       THEN Return(ResultFail("File not found")) /\ xpc' = xpc
       ELSE pc' = "extract" /\ xpc' = "start" /\ results' = results
    /\ UNCHANGED <<fileExists, doc, xtext, xresult, xcalls, extracted_text,
                   complaint_id, analysis_id, analysis_result, idx, exc, escaped,
                   response, inferCalls, faults>>
    /\ UNCHANGED storeVars
    /\ UNCHANGED sideVars

\* an extraction test that lets every yield pass
ExtractionFailedNever(text) == FALSE

\* line 75: not extracted_text
ExtractionFailed(text) == ~Truthy(text)

\* lines 73-80
AfterExtract ==
    /\ pc = "extract" /\ xpc = "done"
    /\ extracted_text' = xresult
    /\ IF ExtractionFailed(xresult)
       THEN Return(ResultFail("Text extraction failed"))
       ELSE pc' = "create" /\ results' = results
    /\ UNCHANGED <<fileExists, doc, complaint_id, analysis_id, analysis_result,
                   idx, exc, escaped, response, inferCalls, faults>>
    /\ UNCHANGED xvars
    /\ UNCHANGED storeVars
    /\ UNCHANGED sideVars

\* ticks of the clock per second: datetime.now() is finer than a second
TicksPerSecond == 2

\* helpers.py line 16: ADU- followed by the clock reading formatted with
\* %Y%m%d%H%M%S, which drops everything below the second
generate_complaint_number(now) == [prefix |-> "ADU-", stamp |-> now \div TicksPerSecond]

\* lines 87-100: Complaint(...) and create_complaint, which re-raises
CreateComplaint ==
    /\ pc = "create"
    /\ \E ok \in BOOLEAN :
         IF ok
         THEN /\ complaints' = Append(complaints,
                    [id |-> Len(complaints) + 1,
                     complaint_number |-> generate_complaint_number(clock),
                     extracted_text |-> extracted_text.text,
                     status |-> "processing",
                     uploaded_by |-> "system"])
              /\ complaint_id' = ReturnedId(complaints'[Len(complaints')])
              /\ pc' = "log_uploaded"
              /\ UNCHANGED <<exc, escaped, faults>>
         ELSE /\ Raise(Exc("store", "complaints insert rejected"))
              /\ faults' = faults \cup {"create_complaint"}
              /\ UNCHANGED <<complaints, complaint_id>>
    /\ UNCHANGED <<fileExists, doc, extracted_text, analysis_id, analysis_result,
                   idx, results, response, inferCalls>>
    /\ UNCHANGED xvars
    /\ UNCHANGED <<analysis_results, legal_articles, recommendations, analysis_logs>>
    /\ UNCHANGED sideVars

\* lines 103-109: log_action COMPLAINT_UPLOADED
LogUploaded ==
    /\ pc = "log_uploaded"
    /\ \E ok \in BOOLEAN :
         LET out == LogOutcome(ok)
         IN  /\ analysis_logs' =
                    IF out = "written"
                    THEN Append(analysis_logs,
                                LogEntry(complaint_id, 0, "COMPLAINT_UPLOADED",
                                         "system", "PDF"))
                    ELSE analysis_logs
             /\ faults' = IF ok THEN faults ELSE faults \cup {"log_uploaded"}
             /\ IF out = "raised"
                THEN Raise(Exc("store", "analysis_logs insert rejected"))
                ELSE pc' = "analyze" /\ UNCHANGED <<exc, escaped>>
    /\ UNCHANGED <<fileExists, doc, extracted_text, complaint_id, analysis_id,
                   analysis_result, idx, results, response, inferCalls>>
    /\ UNCHANGED xvars
    /\ UNCHANGED <<complaints, analysis_results, legal_articles, recommendations>>
    /\ UNCHANGED sideVars

\* line 119: analyze(extracted_text); an exception that analyze lets out
\* is raised inside the try of process_complaint
AnalyzeWith(replies, durations) ==
    /\ pc = "analyze"
    /\ \E r \in replies, d \in durations :
         /\ response' = r
         /\ analysis_result' = analyze(r, d)
         /\ inferCalls' = inferCalls + RequestsIssued(r)
         /\ IF analyze(r, d).raised # ""
            THEN Raise(Exc(analyze(r, d).raised, "analysis raised"))
            ELSE pc' = "analyzed" /\ UNCHANGED <<exc, escaped>>
    /\ UNCHANGED <<fileExists, doc, extracted_text, complaint_id, analysis_id,
                   idx, results, faults>>
    /\ UNCHANGED xvars
    /\ UNCHANGED storeVars
    /\ UNCHANGED sideVars

\* a test of the analysis that lets None pass
AnalysisFalsyNever(a) == FALSE

\* Python truthiness of the value analyze returned (None, or a dict that
\* holds the _metadata key and so is never empty)
AnalysisFalsy(a) == a.isNone

\* lines 121-124: the analysis failed
AnalysisFailed ==
    /\ pc = "analyzed"
    /\ AnalysisFalsy(analysis_result)
    /\ \E ok \in BOOLEAN :
         LET out == StatusUpdateOutcome(ok)
         IN  /\ complaints' = IF out = "updated"
                              THEN SetStatus(complaints, complaint_id, "error")
                              ELSE complaints
             /\ faults' = IF ok THEN faults ELSE faults \cup {"status_error"}
             /\ IF out = "raised"
                THEN Raise(Exc("store", "complaints update rejected")) /\ results' = results
                ELSE Return(ResultFail("AI analysis failed")) /\ UNCHANGED <<exc, escaped>>
    /\ UNCHANGED <<fileExists, doc, extracted_text, complaint_id, analysis_id,
                   analysis_result, idx, response, inferCalls>>
    /\ UNCHANGED xvars
    /\ UNCHANGED <<analysis_results, legal_articles, recommendations, analysis_logs>>
    /\ UNCHANGED sideVars

\* analysis_result.get(block, {}).get(field) raises AttributeError when the
\* block is present with the value None
NestedGetRaises(content) == content.blocks = "null"

\* pydantic rejects a field of the AnalysisResult model
AnalysisModelRejects(content) == content.blocks = "badfield"

\* lines 154-161: .get('summary', {}).get('tingkat_urgensi') and the three
\* quality words, copied as they come; NULL when the block is absent
QualityColumns(blocks) ==
    CASE blocks = "absent" ->
           [tingkat_urgensi |-> "NULL", kelengkapan_laporan |-> "NULL",
            kualitas_bukti |-> "NULL", kompleksitas_kasus |-> "NULL"]
      [] blocks = "offvocab" ->
           [tingkat_urgensi |-> "Kritis", kelengkapan_laporan |-> "Cukup",
            kualitas_bukti |-> "Kuat", kompleksitas_kasus |-> "Sedang"]
      [] OTHER ->
           [tingkat_urgensi |-> "Tinggi", kelengkapan_laporan |-> "Lengkap",
            kualitas_bukti |-> "Kuat", kompleksitas_kasus |-> "Sedang"]

\* lines 134-165: the columns of the row, NULL when their block is absent
AnalysisRow(id, cid, a) ==
    [id |-> id, complaint_id |-> cid,
     pelapor_nama |-> IF a.content.blocks \in {"object", "offvocab"} THEN "Budi" ELSE "NULL",
     tingkat_urgensi |-> QualityColumns(a.content.blocks).tingkat_urgensi,
     kelengkapan_laporan |-> QualityColumns(a.content.blocks).kelengkapan_laporan,
     kualitas_bukti |-> QualityColumns(a.content.blocks).kualitas_bukti,
     kompleksitas_kasus |-> QualityColumns(a.content.blocks).kompleksitas_kasus,
     analyzed_by |-> "AI-Gemini",
     analysis_duration_seconds |-> a.metadata.analysis_duration_seconds]

\* lines 134-168: AnalysisResult(...) and create_analysis_result
SaveAnalysis ==
    /\ pc = "analyzed"
    /\ ~AnalysisFalsy(analysis_result)
    /\ IF NestedGetRaises(analysis_result.content)
       THEN /\ Raise(Exc("attribute", "'NoneType' object has no attribute 'get'"))
            /\ UNCHANGED <<analysis_results, analysis_id, idx, faults>>
       ELSE IF AnalysisModelRejects(analysis_result.content)
       THEN /\ Raise(Exc("validation", "validation error for AnalysisResult"))
            /\ UNCHANGED <<analysis_results, analysis_id, idx, faults>>
       ELSE \E ok \in BOOLEAN :
              IF ok
              THEN /\ analysis_results' = Append(analysis_results,
                          AnalysisRow(Len(analysis_results) + 1, complaint_id,
                                      analysis_result))
                   /\ analysis_id' = ReturnedId(analysis_results'[Len(analysis_results')])
                   /\ idx' = 1
                   /\ pc' = "articles"
                   /\ UNCHANGED <<exc, escaped, faults>>
              ELSE /\ Raise(Exc("store", "analysis_results insert rejected"))
                   /\ faults' = faults \cup {"create_analysis"}
                   /\ UNCHANGED <<analysis_results, analysis_id, idx>>
    /\ UNCHANGED <<fileExists, doc, extracted_text, complaint_id, analysis_result,
                   results, response, inferCalls>>
    /\ UNCHANGED xvars
    /\ UNCHANGED <<complaints, legal_articles, recommendations, analysis_logs>>
    /\ UNCHANGED sideVars

\* the concatenation with the alternative list first
articles_to_save_swapped(content) == content.pasal_alternatif \o content.pasal_utama

\* line 175
articles_to_save(content) == content.pasal_utama \o content.pasal_alternatif

\* the positional rule with the bound off by one
ArticleTypeOffByOne(entry, i, content) ==
    IF "article_type" \in entry.has /\ entry.article_type # ""
    THEN entry.article_type
    ELSE IF i <= Len(content.pasal_utama) THEN "utama" ELSE "alternatif"

\* lines 179-181; i is the 0-based position in articles_to_save
ArticleType(entry, i, content) ==
    IF "article_type" \in entry.has /\ entry.article_type # ""
    THEN entry.article_type
    ELSE IF i < Len(content.pasal_utama) THEN "utama" ELSE "alternatif"

\* line 184
IsPrimary(entry, article_type) ==
    IF "is_primary" \in entry.has THEN entry.is_primary ELSE article_type = "utama"

\* line 194: article_data.get('confidence_score', 0.5)
ConfidenceScore(entry) ==
    IF "confidence_score" \in entry.has THEN entry.confidence_score ELSE 5

\* line 195: article_data.get('confidence_level', 'Sedang')
ConfidenceLevel(entry) ==
    IF "confidence_level" \in entry.has THEN entry.confidence_level ELSE "Sedang"

\* a LegalArticle model whose confidence_score is a plain float
LegalArticleRejectsMissingOnly(entry) ==
    \/ "pasal_number" \notin entry.has
    \/ "sumber_hukum" \notin entry.has

\* models.py lines 27-34: pasal_number and sumber_hukum are required str and
\* confidence_score carries Field(ge=0.0, le=1.0)
LegalArticleRejects(entry) ==
    \/ "pasal_number" \notin entry.has
    \/ "sumber_hukum" \notin entry.has
    \/ ConfidenceScore(entry) < 0
    \/ ConfidenceScore(entry) > 10

\* lines 186-199
LegalArticleRow(aid, entry, i, content) ==
    [analysis_id |-> aid,
     pasal_number |-> entry.pasal_number,
     confidence_score |-> ConfidenceScore(entry),
     confidence_level |-> ConfidenceLevel(entry),
     is_primary |-> IsPrimary(entry, ArticleType(entry, i, content)),
     article_type |-> ArticleType(entry, i, content)]

\* lines 175-202: one pass of the article loop, or its exit
SaveArticle ==
    /\ pc = "articles"
    /\ LET content == analysis_result.content
           todo == articles_to_save(content)
       IN  IF idx > Len(todo)
           THEN /\ pc' = "recommendations" /\ idx' = 1
                /\ UNCHANGED <<legal_articles, exc, escaped, faults>>
           ELSE IF LegalArticleRejects(todo[idx])
           THEN /\ Raise(Exc("validation", "validation error for LegalArticle"))
                /\ UNCHANGED <<legal_articles, idx, faults>>
           ELSE \E ok \in BOOLEAN :
                  IF ok
                  THEN /\ legal_articles' = Append(legal_articles,
                              LegalArticleRow(analysis_id, todo[idx], idx - 1, content))
                       /\ idx' = idx + 1
                       /\ UNCHANGED <<pc, exc, escaped, faults>>
                  ELSE /\ Raise(Exc("store", "legal_articles insert rejected"))
                       /\ faults' = faults \cup {"create_article"}
                       /\ UNCHANGED <<legal_articles, idx>>
    /\ UNCHANGED <<fileExists, doc, extracted_text, complaint_id, analysis_id,
                   analysis_result, results, response, inferCalls>>
    /\ UNCHANGED xvars
    /\ UNCHANGED <<complaints, analysis_results, recommendations, analysis_logs>>
    /\ UNCHANGED sideVars

\* a Recommendation model that accepts a missing text
RecommendationRejectsNever(entry) == FALSE

\* models.py line 96: recommendation_text is a required str
RecommendationRejects(entry) == "text" \notin entry.has

\* lines 210-215
RecommendationRow(aid, entry) ==
    [analysis_id |-> aid,
     recommendation_text |-> entry.text,
     priority |-> IF "priority" \in entry.has THEN entry.priority ELSE "Normal",
     status |-> "pending"]

\* lines 209-218: one pass of the recommendation loop, or its exit
SaveRecommendation ==
    /\ pc = "recommendations"
    /\ LET todo == analysis_result.content.recommendations
       IN  IF idx > Len(todo)
           THEN /\ pc' = "finalize" /\ idx' = 1
                /\ UNCHANGED <<recommendations, exc, escaped, faults>>
           ELSE IF RecommendationRejects(todo[idx])
           THEN /\ Raise(Exc("validation", "validation error for Recommendation"))
                /\ UNCHANGED <<recommendations, idx, faults>>
           ELSE \E ok \in BOOLEAN :
                  IF ok
                  THEN /\ recommendations' = Append(recommendations,
                              RecommendationRow(analysis_id, todo[idx]))
                       /\ idx' = idx + 1
                       /\ UNCHANGED <<pc, exc, escaped, faults>>
                  ELSE /\ Raise(Exc("store", "recommendations insert rejected"))
                       /\ faults' = faults \cup {"create_recommendation"}
                       /\ UNCHANGED <<recommendations, idx>>
    /\ UNCHANGED <<fileExists, doc, extracted_text, complaint_id, analysis_id,
                   analysis_result, results, response, inferCalls>>
    /\ UNCHANGED xvars
    /\ UNCHANGED <<complaints, analysis_results, legal_articles, analysis_logs>>
    /\ UNCHANGED sideVars

\* line 223: update_complaint_status(complaint_id, 'analyzed')
Finalize ==
    /\ pc = "finalize"
    /\ \E ok \in BOOLEAN :
         LET out == StatusUpdateOutcome(ok)
         IN  /\ complaints' = IF out = "updated"
                              THEN SetStatus(complaints, complaint_id, "analyzed")
                              ELSE complaints
             /\ faults' = IF ok THEN faults ELSE faults \cup {"status_analyzed"}
             /\ IF out = "raised"
                THEN Raise(Exc("store", "complaints update rejected"))
                ELSE pc' = "log_completed" /\ UNCHANGED <<exc, escaped>>
    /\ UNCHANGED <<fileExists, doc, extracted_text, complaint_id, analysis_id,
                   analysis_result, idx, results, response, inferCalls>>
    /\ UNCHANGED xvars
    /\ UNCHANGED <<analysis_results, legal_articles, recommendations, analysis_logs>>
    /\ UNCHANGED sideVars

\* lines 224-230: log_action ANALYSIS_COMPLETED
LogCompleted ==
    /\ pc = "log_completed"
    /\ \E ok \in BOOLEAN :
         LET out == LogOutcome(ok)
         IN  /\ analysis_logs' =
                    IF out = "written"
                    THEN Append(analysis_logs,
                                LogEntry(complaint_id, analysis_id, "ANALYSIS_COMPLETED",
                                         "system", "Analysis ID"))
                    ELSE analysis_logs
             /\ faults' = IF ok THEN faults ELSE faults \cup {"log_completed"}
             /\ IF out = "raised"
                THEN Raise(Exc("store", "analysis_logs insert rejected"))
                ELSE pc' = "summary" /\ UNCHANGED <<exc, escaped>>
    /\ UNCHANGED <<fileExists, doc, extracted_text, complaint_id, analysis_id,
                   analysis_result, idx, results, response, inferCalls>>
    /\ UNCHANGED xvars
    /\ UNCHANGED <<complaints, analysis_results, legal_articles, recommendations>>
    /\ UNCHANGED sideVars

\* lines 235-255: the final summary reads the nested blocks again (lines
\* 242-244) and returns the success record; the local complaint_number is
\* the value that went into the row
Summary ==
    /\ pc = "summary"
    /\ IF NestedGetRaises(analysis_result.content)
       THEN Raise(Exc("attribute", "'NoneType' object has no attribute 'get'"))
            /\ results' = results
       ELSE Return(ResultOk(complaint_id, complaints[complaint_id].complaint_number,
                            analysis_id))
            /\ UNCHANGED <<exc, escaped>>
    /\ UNCHANGED <<fileExists, doc, extracted_text, complaint_id, analysis_id,
                   analysis_result, idx, response, inferCalls, faults>>
    /\ UNCHANGED xvars
    /\ UNCHANGED storeVars
    /\ UNCHANGED sideVars

\* a recovery that is never attempted
HandlerRecoversNever(cid) == FALSE

\* a recovery that is attempted without a Complaint id
HandlerRecoversAlways(cid) == TRUE

\* line 264: if complaint_id
HandlerRecovers(cid) == cid # 0

\* a handler that reports the failure it met last
ReportedErrorLast(e, db_e) == IF db_e # "" THEN db_e ELSE e.msg

\* line 276: 'error': str(e), the exception the outer handler caught; db_e,
\* the failure met while recovering, is only printed (lines 273-274, and
\* inside update_complaint_status and log_action)
ReportedError(e, db_e) == e.msg

\* lines 257-276: the outer handler; both recovery calls swallow their own
\* failures, and the inner try guards them as well
Handler ==
    /\ pc = "handler"
    /\ IF HandlerRecovers(complaint_id)
       THEN \E ok1 \in BOOLEAN, ok2 \in BOOLEAN :
              LET out1 == StatusUpdateOutcome(ok1)
                  out2 == IF out1 = "raised" THEN "skipped" ELSE LogOutcome(ok2)
                  db_e == IF ~ok1 THEN "complaints update rejected"
                          ELSE IF ~ok2 THEN "analysis_logs insert rejected"
                          ELSE ""
              IN  /\ complaints' = IF out1 = "updated"
                                   THEN SetStatus(complaints, complaint_id, "error")
                                   ELSE complaints
                  /\ analysis_logs' =
                         IF out2 = "written"
                         THEN Append(analysis_logs,
                                     LogEntry(complaint_id, analysis_id,
                                              "PROCESSING_ERROR", "system", exc.msg))
                         ELSE analysis_logs
                  /\ faults' = faults
                               \cup (IF ok1 THEN {} ELSE {"status_error"})
                               \cup (IF out2 \in {"swallowed", "raised"} THEN {"log_error"} ELSE {})
                  /\ Return(ResultFail(ReportedError(exc, db_e)))
       ELSE /\ UNCHANGED <<complaints, analysis_logs, faults>>
            /\ Return(ResultFail(ReportedError(exc, "")))
    /\ UNCHANGED <<fileExists, doc, extracted_text, complaint_id, analysis_id,
                   analysis_result, idx, exc, escaped, response, inferCalls>>
    /\ UNCHANGED xvars
    /\ UNCHANGED <<analysis_results, legal_articles, recommendations>>
    /\ UNCHANGED sideVars

(***************************************************************************)
(* Step 2 of process_complaint in concurrent runs                          *)
(***************************************************************************)
MaxRuns == 2

MaxClock == 3

RunIds == 1..MaxRuns

NoNumber == [prefix |-> "", stamp |-> 0]

IntakeUnchanged ==
    /\ UNCHANGED <<fileExists, doc, xvars, pipeVars>>
    /\ UNCHANGED <<analysis_results, legal_articles, recommendations, analysis_logs>>
    /\ UNCHANGED <<validatorVars, serverVars>>

\* time passes
Tick ==
    /\ clock < MaxClock
    /\ clock' = clock + 1
    /\ UNCHANGED <<runs, complaints>>
    /\ IntakeUnchanged

\* main.py line 87: complaint_number = generate_complaint_number()
IntakeNumber(r) ==
    /\ runs[r].pc = "number"
    /\ runs' = [runs EXCEPT ![r] = [pc |-> "insert",
                                    number |-> generate_complaint_number(clock)]]
    /\ UNCHANGED <<clock, complaints>>
    /\ IntakeUnchanged

\* main.py lines 90-100: Complaint(...) and create_complaint
IntakeInsert(r) ==
    /\ runs[r].pc = "insert"
    /\ \E ok \in BOOLEAN :
         IF ok
         THEN /\ complaints' = Append(complaints,
                    [id |-> Len(complaints) + 1,
                     complaint_number |-> runs[r].number,
                     extracted_text |-> <<"x">>,
                     status |-> "processing",
                     uploaded_by |-> "system"])
              /\ runs' = [runs EXCEPT ![r].pc = "created"]
         ELSE /\ complaints' = complaints
              /\ runs' = [runs EXCEPT ![r].pc = "failed"]
    /\ UNCHANGED clock
    /\ IntakeUnchanged

(***************************************************************************)
(* api_server.analyze_laporan                                              *)
(***************************************************************************)
Requests == {1, 2}

\* an upload filename: absolute or relative, as a list of path components
Name(abs, parts) == [abs |-> abs, parts |-> parts]

\* filenames a client may send: two plain names, a name that climbs out of
\* its directory, an absolute name, and the empty name
UploadNames ==
    { Name(FALSE, <<"a.pdf">>), Name(FALSE, <<"b.pdf">>),
      Name(FALSE, <<"..", "etc", "a.pdf">>), Name(TRUE, <<"etc", "a.pdf">>),
      Name(FALSE, <<>>) }

\* line 113
temp_dir == <<"tmp">>

\* line 115: os.path.join(temp_dir, file.filename); an absolute second
\* argument discards the first
temp_path(name) == IF name.abs THEN name.parts ELSE temp_dir \o name.parts

\* the location a path names once the kernel has followed its ".." steps
RECURSIVE ResolveFrom(_, _)
ResolveFrom(at, rest) ==
    IF rest = <<>> THEN at
    ELSE IF Head(rest) = ".."
         THEN ResolveFrom(IF at = <<>> THEN at ELSE SubSeq(at, 1, Len(at) - 1), Tail(rest))
         ELSE ResolveFrom(Append(at, Head(rest)), Tail(rest))

Resolve(path) == ResolveFrom(<<>>, path)

Directories == {<<>>, <<"tmp">>, <<"etc">>}

\* the locations the handler can touch
ServerPaths == {Resolve(temp_path(n)) : n \in UploadNames} \ Directories

\* a regular file: absent, or holding the bytes of an upload (0 is empty)
Absent == [exists |-> FALSE, bytes |-> 0]

File(bytes) == [exists |-> TRUE, bytes |-> bytes]

\* os.path.exists
PathExists(files, path) == path \in Directories \/ files[path].exists

\* detail is the formatted message: its fixed prefix and the value put into it
NoResponse == [status |-> 0, keys |-> {}, success |-> FALSE, detail |-> <<>>]

\* lines 139-147: JSONResponse with the success envelope
SuccessResponse ==
    [status |-> 200, keys |-> {"success", "message", "filename", "result"},
     success |-> TRUE, detail |-> <<>>]

\* a failure answered with the envelope of the success case
ErrorEnvelope(detail) ==
    [status |-> 500, keys |-> {"success", "error"}, success |-> FALSE, detail |-> detail]

\* HTTPException(status_code=500, detail=...) as FastAPI renders it: a body
\* whose only key is detail
ErrorResponse(detail) ==
    [status |-> 500, keys |-> {"detail"}, success |-> FALSE, detail |-> detail]

NewRequest(name) ==
    [pc |-> "start", name |-> name, saved |-> FALSE, unlinked |-> FALSE,
     read |-> 0, result |-> "", exit |-> "", resp |-> NoResponse,
     removeFailed |-> FALSE]

\* what process_complaint does: success, one of its failure records, or an
\* exception from the code ahead of its try block
PipelineOutcomes ==
    {"ok", "File not found", "Text extraction failed", "AI analysis failed", "raised"}

\* a cleanup that only runs when the handler returns normally
RunsCleanupOnReturn(exit) == exit = "returned"

\* line 157, finally: the cleanup runs however the try block was left
RunsCleanup(exit) == exit \in {"returned", "http_error", "exception"}

ServerUnchanged == UNCHANGED <<coreVars, validatorVars, intakeVars>>

\* lines 103-110: without a processor the handler raises before any file
UploadStart(r) ==
    /\ requests[r].pc = "start"
    /\ requests' = [requests EXCEPT ![r] =
          IF processor THEN [@ EXCEPT !.pc = "open"]
          ELSE [@ EXCEPT !.pc = "done", !.exit = "unconfigured",
                         !.resp = ErrorResponse(<<"Server tidak terkonfigurasi dengan benar", "">>)]]
    /\ UNCHANGED <<fs, processor>>
    /\ ServerUnchanged

\* line 121: open(temp_path, "wb") creates or truncates the file
UploadOpen(r) ==
    /\ requests[r].pc = "open"
    /\ LET path == Resolve(temp_path(requests[r].name))
       IN  \E ok \in BOOLEAN :
             IF ok /\ path \notin Directories
             THEN /\ fs' = [fs EXCEPT ![path] = File(0)]
                  /\ requests' = [requests EXCEPT ![r].pc = "write", ![r].saved = TRUE]
             ELSE /\ fs' = fs
                  /\ requests' = [requests EXCEPT ![r].pc = "cleanup",
                                                  ![r].exit = "exception"]
    /\ UNCHANGED processor
    /\ ServerUnchanged

\* lines 122-123: the upload is read and written through the open handle;
\* a handle whose file was removed meanwhile writes to no path
UploadWrite(r) ==
    /\ requests[r].pc = "write"
    /\ LET path == Resolve(temp_path(requests[r].name))
       IN  \E ok \in BOOLEAN :
             IF ok
             THEN /\ fs' = IF requests[r].unlinked THEN fs
                           ELSE [fs EXCEPT ![path] = File(r)]
                  /\ requests' = [requests EXCEPT ![r].pc = "process"]
             ELSE /\ fs' = fs
                  /\ requests' = [requests EXCEPT ![r].pc = "cleanup",
                                                  ![r].exit = "exception"]
    /\ UNCHANGED processor
    /\ ServerUnchanged

\* lines 128-147: the pipeline runs on temp_path; a result without success
\* becomes an HTTPException, which line 149 re-raises
UploadProcess(r) ==
    /\ requests[r].pc = "process"
    /\ LET path == Resolve(temp_path(requests[r].name))
       IN  \E o \in PipelineOutcomes :
             /\ (~PathExists(fs, path) => o = "File not found")
             /\ (PathExists(fs, path) => o # "File not found")
             /\ requests' = [requests EXCEPT ![r] =
                   [@ EXCEPT !.pc = "cleanup",
                             !.read = IF PathExists(fs, path) THEN fs[path].bytes ELSE 0,
                             !.result = o,
                             !.exit = CASE o = "ok" -> "returned"
                                        [] o = "raised" -> "exception"
                                        [] OTHER -> "http_error",
                             !.resp = CASE o = "ok" -> SuccessResponse
                                        [] o = "raised" -> NoResponse
                                        [] OTHER ->
                                             ErrorResponse(<<"Gagal memproses file: ", o>>)]]
    /\ UNCHANGED <<fs, processor>>
    /\ ServerUnchanged

\* lines 151-164: except Exception answers 500; finally removes temp_path
\* when it exists, and a failing os.remove is logged and swallowed
UploadCleanup(r) ==
    /\ requests[r].pc = "cleanup"
    /\ LET path == Resolve(temp_path(requests[r].name))
           resp == IF requests[r].exit = "exception"
                   THEN ErrorResponse(<<"Terjadi kesalahan internal pada server: ",
                                        "exception">>)
                   ELSE requests[r].resp
       IN  IF RunsCleanup(requests[r].exit) /\ PathExists(fs, path)
           THEN \E ok \in BOOLEAN :
                  IF ok /\ path \notin Directories
                  THEN /\ fs' = [fs EXCEPT ![path] = Absent]
                       /\ requests' =
                            [q \in Requests |->
                               IF q = r
                               THEN [requests[q] EXCEPT !.pc = "done", !.resp = resp]
                               ELSE IF requests[q].pc = "write"
                                       /\ Resolve(temp_path(requests[q].name)) = path
                               THEN [requests[q] EXCEPT !.unlinked = TRUE]
                               ELSE requests[q]]
                  ELSE /\ fs' = fs
                       /\ requests' = [requests EXCEPT ![r].pc = "done", ![r].resp = resp,
                                                       ![r].removeFailed = TRUE]
           ELSE /\ fs' = fs
                /\ requests' = [requests EXCEPT ![r].pc = "done", ![r].resp = resp]
    /\ UNCHANGED processor
    /\ ServerUnchanged

(***************************************************************************)
(* Specifications                                                          *)
(***************************************************************************)
InitLocals ==
    /\ xtext = None /\ xresult = None /\ xcalls = <<>>
    /\ extracted_text = None
    /\ complaint_id = 0 /\ analysis_id = 0
    /\ analysis_result = NoAnalysis
    /\ idx = 1 /\ exc = NoExc
    /\ complaints = <<>> /\ analysis_results = <<>> /\ legal_articles = <<>>
    /\ recommendations = <<>> /\ analysis_logs = <<>>
    /\ results = <<>> /\ escaped = FALSE
    /\ response = NoReply /\ inferCalls = 0 /\ faults = {}

\* no request is being served
InitServerIdle ==
    /\ fs = [p \in ServerPaths |-> Absent]
    /\ requests = [r \in Requests |-> [NewRequest(Name(FALSE, <<>>)) EXCEPT !.pc = "done"]]
    /\ processor = TRUE

\* no other run is at its step 2
InitIntakeIdle ==
    /\ clock = 0
    /\ runs = [r \in RunIds |-> [pc |-> "idle", number |-> NoNumber]]

\* nothing outside the run is in progress
InitSide ==
    /\ vdoc = NoDoc /\ vresult = Pending
    /\ InitServerIdle
    /\ InitIntakeIdle

\* one call of process_complaint on an empty store
Init ==
    /\ fileExists \in BOOLEAN
    /\ doc \in PipelineDocs
    /\ pc = "start" /\ xpc = "idle"
    /\ InitLocals
    /\ InitSide

Analyze == AnalyzeWith(PipelineReplies, PipelineDurations)

Next ==
    \/ ValidateInput
    \/ ExtractStart
    \/ ExtractDigital
    \/ ExtractOcr
    \/ AfterExtract
    \/ CreateComplaint
    \/ LogUploaded
    \/ Analyze
    \/ AnalysisFailed
    \/ SaveAnalysis
    \/ SaveArticle
    \/ SaveRecommendation
    \/ Finalize
    \/ LogCompleted
    \/ Summary
    \/ Handler

Spec == Init /\ [][Next]_vars

\* one call of PDFExtractor.extract_text on any document
InitExtract ==
    /\ fileExists \in BOOLEAN
    /\ doc \in Docs
    /\ pc = "idle" /\ xpc = "start"
    /\ InitLocals
    /\ InitSide

NextExtract ==
    \/ ExtractStart
    \/ ExtractDigital
    \/ ExtractOcr

SpecExtract == InitExtract /\ [][NextExtract]_vars

\* one call of LegalAIAnalyzer.analyze on any reply of the endpoint
InitAnalyze ==
    /\ fileExists = TRUE
    /\ doc \in {d \in PipelineDocs : d.digital.ok /\ ~d.ocr.ok}
    /\ pc = "analyze" /\ xpc = "idle"
    /\ InitLocals
    /\ InitSide

AnalyzeAny == AnalyzeWith(AnalyzeReplies, Durations)

NextAnalyze == AnalyzeAny

SpecAnalyze == InitAnalyze /\ [][NextAnalyze]_vars

\* a process that is not inside process_complaint
IdleCore ==
    /\ fileExists = FALSE
    /\ doc = [digital |-> [ok |-> FALSE, pages |-> <<>>],
              ocr |-> [ok |-> FALSE, pages |-> <<>>]]
    /\ pc = "idle" /\ xpc = "idle"
    /\ InitLocals

\* one call of validate_analysis on any dict, or on None
InitValidate ==
    /\ IdleCore
    /\ vdoc \in ValidatorInputs
    /\ vresult = Pending
    /\ InitServerIdle
    /\ InitIntakeIdle

NextValidate == Validate

SpecValidate == InitValidate /\ [][NextValidate]_vars

\* two /analyze requests, each with any filename, served side by side
InitServer ==
    /\ IdleCore
    /\ vdoc = NoDoc /\ vresult = Pending
    /\ fs = [p \in ServerPaths |-> Absent]
    /\ requests \in [Requests -> {NewRequest(n) : n \in UploadNames}]
    /\ processor \in BOOLEAN
    /\ InitIntakeIdle

NextServer ==
    \E r \in Requests :
       \/ UploadStart(r)
       \/ UploadOpen(r)
       \/ UploadWrite(r)
       \/ UploadProcess(r)
       \/ UploadCleanup(r)

SpecServer == InitServer /\ [][NextServer]_vars

\* MaxRuns pipeline runs reach step 2 in any order while the clock advances
InitIntake ==
    /\ IdleCore
    /\ vdoc = NoDoc /\ vresult = Pending
    /\ InitServerIdle
    /\ clock = 0
    /\ runs = [r \in RunIds |-> [pc |-> "number", number |-> NoNumber]]

NextIntake ==
    \/ Tick
    \/ \E r \in RunIds : IntakeNumber(r) \/ IntakeInsert(r)

SpecIntake == InitIntake /\ [][NextIntake]_vars

(***************************************************************************)
(* Properties                                                              *)
(***************************************************************************)
Range(f) == {f[i] : i \in DOMAIN f}

NoRows ==
    /\ complaints = <<>> /\ analysis_results = <<>> /\ legal_articles = <<>>
    /\ recommendations = <<>> /\ analysis_logs = <<>>

LogWrites == {"log_uploaded", "log_completed", "log_error"}

\* C1: whatever the path, the extractor, the endpoint and the store do,
\* process_complaint hands back exactly one result record with a boolean
\* success field, a failure record carries an error string, and no
\* exception leaves the function.
C1_AlwaysOneResult ==
    /\ ~escaped
    /\ Len(results) <= 1
    /\ (pc = "done" <=> Len(results) = 1)
    /\ \A i \in DOMAIN results :
         /\ "success" \in DOMAIN results[i]
         /\ results[i].success \in BOOLEAN
         /\ (~results[i].success =>
                "error" \in DOMAIN results[i] /\ results[i].error \in STRING)

\* a run that failed in model validation and whose recovery writes were
\* rejected as well still returned its failure record
C1_Witness ==
    /\ pc = "done" /\ Len(results) = 1 /\ ~results[1].success
    /\ exc.kind = "validation"
    /\ {"status_error", "log_error"} \subseteq faults

\* C2: a Complaint row is created as processing, its status changes at most
\* once, to analyzed or to error, a status of analyzed or error is never
\* changed again, and no row is ever removed.
C2_StatusOnlyForward ==
    [][ /\ Len(complaints') >= Len(complaints)
        /\ \A i \in DOMAIN complaints :
             /\ complaints'[i].id = complaints[i].id
             /\ (complaints'[i].status # complaints[i].status =>
                    /\ complaints[i].status = "processing"
                    /\ complaints'[i].status \in {"analyzed", "error"})
        /\ \A i \in DOMAIN complaints' \ DOMAIN complaints :
             complaints'[i].status = "processing" ]_vars

\* the run ended with the row analyzed although the write that follows the
\* status update (the ANALYSIS_COMPLETED log) was rejected
C2_Witness ==
    /\ pc = "done" /\ Len(complaints) = 1
    /\ complaints[1].status = "analyzed"
    /\ "log_completed" \in faults

\* a parsed reply that follows the schema: nested blocks are objects or
\* absent and every entry passes its model
Conforming(content) ==
    /\ content.blocks \in {"object", "absent"}
    /\ \A i \in DOMAIN content.pasal_utama :
         /\ "pasal_number" \in content.pasal_utama[i].has
         /\ ConfidenceScore(content.pasal_utama[i]) \in 0..10
    /\ \A i \in DOMAIN content.pasal_alternatif :
         /\ "pasal_number" \in content.pasal_alternatif[i].has
         /\ ConfidenceScore(content.pasal_alternatif[i]) \in 0..10
    /\ \A i \in DOMAIN content.recommendations :
         "text" \in content.recommendations[i].has

\* C3: a run on an existing file with extracted text and a structured,
\* schema-conforming analysis, in which the store accepts the row writes
\* and the status update, returns success and leaves one Complaint row with
\* status analyzed, one AnalysisResult row for it, one LegalArticle row per
\* entry of pasal_utama followed by pasal_alternatif in that order, and one
\* Recommendation row per recommendation.
C3_SuccessfulRunRows ==
    (/\ pc = "done"
     /\ ~analysis_result.isNone
     /\ Conforming(analysis_result.content)
     /\ faults \subseteq LogWrites)
    => LET c == analysis_result.content
           entries == c.pasal_utama \o c.pasal_alternatif
       IN  /\ Len(results) = 1 /\ results[1].success
           /\ Len(complaints) = 1 /\ complaints[1].status = "analyzed"
           /\ Len(analysis_results) = 1
           /\ analysis_results[1].complaint_id = complaints[1].id
           /\ Len(legal_articles) = Len(c.pasal_utama) + Len(c.pasal_alternatif)
           /\ \A i \in DOMAIN legal_articles :
                /\ legal_articles[i].pasal_number = entries[i].pasal_number
                /\ legal_articles[i].analysis_id = analysis_results[1].id
           /\ Len(recommendations) = Len(c.recommendations)
           /\ \A i \in DOMAIN recommendations :
                /\ recommendations[i].recommendation_text = c.recommendations[i].text
                /\ recommendations[i].analysis_id = analysis_results[1].id

\* a successful run with one primary and one different alternative article
\* and one recommendation
C3_Witness ==
    /\ pc = "done" /\ Len(results) = 1 /\ results[1].success
    /\ Len(analysis_result.content.pasal_utama) = 1
    /\ Len(analysis_result.content.pasal_alternatif) = 1
    /\ Len(legal_articles) = 2
    /\ legal_articles[1].pasal_number # legal_articles[2].pasal_number
    /\ Len(recommendations) = 1

\* C4: when the analysis call returns None the run returns the failure
\* record "AI analysis failed", no AnalysisResult, LegalArticle or
\* Recommendation row exists, and the Complaint row created before the call
\* has status error once the store has accepted the status update.
C4_AnalysisFailure ==
    (pc = "done" /\ inferCalls = 1 /\ analysis_result.isNone)
    => /\ results = <<ResultFail("AI analysis failed")>>
       /\ Len(complaints) = 1
       /\ ("status_error" \notin faults => complaints[1].status = "error")
       /\ analysis_results = <<>> /\ legal_articles = <<>> /\ recommendations = <<>>

\* the endpoint answered with text that does not parse and the run ended
\* with the row marked error
C4_Witness ==
    /\ pc = "done" /\ inferCalls = 1 /\ analysis_result.isNone
    /\ response.ok
    /\ Len(complaints) = 1 /\ complaints[1].status = "error"

\* C5: for a path that does not exist the run returns exactly the failure
\* record "File not found", writes to no table, and calls neither the
\* extractor nor the inference endpoint.
C5_FileNotFound ==
    ~fileExists
    => /\ NoRows /\ faults = {}
       /\ xpc = "idle" /\ xcalls = <<>>
       /\ inferCalls = 0
       /\ (pc = "done" => results = <<ResultFail("File not found")>>)

C5_Witness == pc = "done" /\ ~fileExists /\ Len(results) = 1

\* C6: when extract_text yields None or empty text for an existing file the
\* run returns the failure record "Text extraction failed" with no table
\* written, no write attempted and the inference endpoint not called.
C6_ExtractionFailure ==
    (fileExists /\ xpc = "done" /\ ~Truthy(xresult))
    => /\ NoRows /\ faults = {}
       /\ inferCalls = 0
       /\ pc \in {"extract", "done"}
       /\ (pc = "done" => results = <<ResultFail("Text extraction failed")>>)

\* both strategies were tried, neither yielded enough text, the run returned
C6_Witness ==
    /\ pc = "done" /\ fileExists
    /\ xcalls = <<"digital", "ocr">> /\ xresult.isNone
    /\ Len(results) = 1

\* C7: when a step after the creation of the Complaint row raises, the run
\* returns the failure record carrying the message of that exception, the
\* row has status error once the store has accepted the recovery update,
\* and the audit log ends with a PROCESSING_ERROR entry whose details are
\* that message once the store has accepted the recovery log write.
C7_OuterHandler ==
    (pc = "done" /\ complaint_id # 0 /\ exc # NoExc)
    => /\ results = <<ResultFail(exc.msg)>>
       /\ ("status_error" \notin faults => complaints[complaint_id].status = "error")
       /\ ("log_error" \notin faults =>
              /\ analysis_logs # <<>>
              /\ analysis_logs[Len(analysis_logs)] =
                    LogEntry(complaint_id, analysis_id, "PROCESSING_ERROR",
                             "system", exc.msg))

\* the second article was rejected by its model after the first was stored
C7_Witness ==
    /\ pc = "done" /\ exc.kind = "validation"
    /\ Len(legal_articles) = 1 /\ analysis_id # 0
    /\ complaints[1].status = "error"
    /\ analysis_logs # <<>>
    /\ analysis_logs[Len(analysis_logs)].action = "PROCESSING_ERROR"

\* C8 as stated: a digital text of length >= 100 is returned (up to
\* surrounding whitespace) and OCR is never invoked.
C8_Original ==
    (/\ xpc = "done" /\ fileExists /\ doc.digital.ok
     /\ Len(DigitalRaw(doc.digital)) >= min_text_threshold)
    => /\ ~xresult.isNone
       /\ Strip(xresult.text) = Strip(DigitalRaw(doc.digital))
       /\ "ocr" \notin Range(xcalls)

\* C8: a digital text whose stripped length is >= 100 is returned, stripped
\* of surrounding whitespace, and OCR is never invoked.
C8_DigitalSufficient ==
    (/\ fileExists /\ doc.digital.ok
     /\ Len(Strip(DigitalRaw(doc.digital))) >= min_text_threshold)
    => /\ "ocr" \notin Range(xcalls)
       /\ xpc # "ocr"
       /\ (xpc = "done" =>
              /\ xresult = Some(Strip(DigitalRaw(doc.digital)))
              /\ xcalls = <<"digital">>)

\* two pages whose concatenation has exactly the threshold length after
\* stripping were returned by the digital strategy alone
C8_Witness ==
    /\ xpc = "done" /\ fileExists
    /\ Len(doc.digital.pages) = 2
    /\ xcalls = <<"digital">>
    /\ ~xresult.isNone /\ Len(xresult.text) = min_text_threshold

\* C9: when the digital strategy fails or its text is below the threshold,
\* OCR is invoked exactly once, after the digital attempt; the result is the
\* OCR text (page texts each followed by a blank line, stripped) when its
\* stripped length meets the threshold, and None when it does not or when
\* OCR fails.
C9_OcrFallback ==
    (/\ xpc = "done" /\ fileExists
     /\ (~doc.digital.ok \/ Len(Strip(DigitalRaw(doc.digital))) < min_text_threshold))
    => /\ xcalls = <<"digital", "ocr">>
       /\ xresult = IF doc.ocr.ok /\ Len(Strip(OcrRaw(doc.ocr))) >= min_text_threshold
                    THEN Some(Strip(OcrRaw(doc.ocr)))
                    ELSE None

\* the digital layer was readable but short and OCR supplied the text
C9_Witness ==
    /\ xpc = "done" /\ fileExists /\ doc.digital.ok
    /\ xcalls = <<"digital", "ocr">>
    /\ ~xresult.isNone

WellFormedDocs == {d \in ReplyDocs : json_loads(d).ok}

\* C10: a well-formed document wrapped in a fenced code block (opening fence
\* line with or without a language tag, closing fence line) is analyzed to
\* the same structure, metadata aside, as the document without the fence.
C10_FenceTransparent ==
    \A f \in FenceForms, d \in WellFormedDocs :
       (pc = "analyzed" /\ response.ok /\ response.text = Wrap(f, d))
       => LET plain == analyze(Reply(TRUE, d, response.content), 0)
          IN  /\ analysis_result.isNone = plain.isNone
              /\ analysis_result.doc = plain.doc
              /\ analysis_result.content = plain.content

\* a multi-line object inside a json-tagged fence was parsed
C10_Witness ==
    /\ pc = "analyzed" /\ response.ok
    /\ response.text = Wrap("json", <<"{", "\n", " ", "k", ":", " ", "1", "\n", "}">>)
    /\ ~analysis_result.isNone
    /\ analysis_result.doc = <<"{", "k", ":", "1", "}">>

\* C11: for every dict, validate_analysis returns True exactly when the six
\* keys pelapor, terlapor, kejadian, jenis_kasus, pasal_utama and summary are
\* all among its keys, returns False when at least one of them is missing,
\* and does not raise.
C11_ValidatorKeys ==
    (~vdoc.isNone /\ vresult # Pending)
    => /\ vresult.state = "returned"
       /\ vresult.value =
            ({"pelapor", "terlapor", "kejadian", "jenis_kasus", "pasal_utama",
              "summary"} \subseteq vdoc.keys)

\* a dict that lacks only the last required key was answered with False
C11_Witness ==
    /\ ~vdoc.isNone
    /\ vdoc.keys = {"pelapor", "terlapor", "kejadian", "jenis_kasus", "pasal_utama",
                    "recommendations"}
    /\ vresult = Returned(FALSE)

\* the location of the temporary file of request r
TempFileOf(r) == Resolve(temp_path(requests[r].name))

OutOfRange(entry) ==
    "confidence_score" \in entry.has /\ entry.confidence_score \notin 0..10

\* the entries of pasal_utama followed by those of pasal_alternatif
EntriesOf(a) == a.content.pasal_utama \o a.content.pasal_alternatif

\* C13: every persisted LegalArticle row has a confidence_score within
\* [0.0, 1.0], and for an entry whose score is out of range no insert is
\* issued: the article loop never gets past it, no row is written at or
\* after its position, and no insert at its position is rejected by the
\* store.
C13_ScoreInRange ==
    /\ \A i \in DOMAIN legal_articles : legal_articles[i].confidence_score \in 0..10
    /\ (~analysis_result.isNone =>
          \A k \in DOMAIN EntriesOf(analysis_result) :
             OutOfRange(EntriesOf(analysis_result)[k])
             => /\ Len(legal_articles) < k
                /\ (pc = "articles" => idx <= k)
                /\ ("create_article" \in faults => idx < k)
                /\ recommendations = <<>>)

\* the first entry was stored with 0.9, the second carried 1.5, and the run
\* ended in the outer handler without an insert having been rejected
C13_Witness ==
    /\ pc = "done" /\ ~analysis_result.isNone
    /\ Len(EntriesOf(analysis_result)) = 2
    /\ EntriesOf(analysis_result)[2].confidence_score = 15
    /\ Len(legal_articles) = 1 /\ legal_articles[1].confidence_score = 9
    /\ exc.kind = "validation" /\ "create_article" \notin faults

\* the words the prompt allows (create_analysis_prompt, lines 126-154)
UrgencyWords == {"Tinggi", "Sedang", "Rendah"}

CompletenessWords == {"Lengkap", "Tidak Lengkap", "Parsial"}

EvidenceWords == {"Kuat", "Sedang", "Lemah"}

\* C15: every persisted AnalysisResult row has kelengkapan_laporan,
\* kualitas_bukti, kompleksitas_kasus and tingkat_urgensi within their
\* vocabularies (or NULL when the payload has no such block), and every
\* persisted LegalArticle row has a confidence_level within its vocabulary;
\* a word outside them is never written to the store.
C15_Vocabulary ==
    /\ \A i \in DOMAIN analysis_results :
         /\ analysis_results[i].kelengkapan_laporan \in CompletenessWords \cup {"NULL"}
         /\ analysis_results[i].kualitas_bukti \in EvidenceWords \cup {"NULL"}
         /\ analysis_results[i].kompleksitas_kasus \in UrgencyWords \cup {"NULL"}
         /\ analysis_results[i].tingkat_urgensi \in UrgencyWords \cup {"NULL"}
    /\ \A i \in DOMAIN legal_articles :
         legal_articles[i].confidence_level \in UrgencyWords

\* C14: no two Complaint rows carry the same complaint_number, and no two
\* calls of generate_complaint_number yield the same value, also when they
\* fall into the same clock second.
C14_UniqueNumbers ==
    /\ \A i, j \in DOMAIN complaints :
         i # j => complaints[i].complaint_number # complaints[j].complaint_number
    /\ \A r, q \in RunIds :
         (r # q /\ runs[r].pc \notin {"idle", "number"} /\ runs[q].pc \notin {"idle", "number"})
         => runs[r].number # runs[q].number

\* C16: in every state of the store each AnalysisResult row names the id of
\* an existing Complaint row, and each LegalArticle and Recommendation row
\* names the id of an existing AnalysisResult row.
C16_ParentsExist ==
    /\ \A i \in DOMAIN analysis_results :
         \E j \in DOMAIN complaints : complaints[j].id = analysis_results[i].complaint_id
    /\ \A i \in DOMAIN legal_articles :
         \E j \in DOMAIN analysis_results :
            analysis_results[j].id = legal_articles[i].analysis_id
    /\ \A i \in DOMAIN recommendations :
         \E j \in DOMAIN analysis_results :
            analysis_results[j].id = recommendations[i].analysis_id

\* two article rows hang under the analysis row of a run that then lost
\* its recommendation insert
C16_Witness ==
    /\ pc = "done" /\ Len(results) = 1 /\ ~results[1].success
    /\ Len(analysis_results) = 1 /\ Len(legal_articles) = 2
    /\ legal_articles[2].analysis_id = analysis_results[1].id
    /\ "create_recommendation" \in faults

\* what every run that broke off inside steps 5-6 leaves behind: the
\* AnalysisResult row, no status of analyzed, the failure record carrying the
\* exception's message, and status error once the store has accepted the
\* recovery update
AbortedInPersistence ==
    /\ Len(analysis_results) = 1
    /\ "status_analyzed" \notin faults
    /\ complaints[complaint_id].status # "analyzed"
    /\ results = <<ResultFail(exc.msg)>>
    /\ ("status_error" \notin faults => complaints[complaint_id].status = "error")

PositionalType(a, i) ==
    IF i - 1 < Len(a.content.pasal_utama) THEN "utama" ELSE "alternatif"

\* C18 as stated: the persisted article_type is the explicit article_type
\* whenever the key is present, else the positional one; is_primary is the
\* explicit is_primary when present, else true exactly when the article_type
\* is utama.
C18_Original ==
    ~analysis_result.isNone =>
       \A i \in DOMAIN legal_articles :
          LET e == EntriesOf(analysis_result)[i]
              t == IF "article_type" \in e.has THEN e.article_type
                   ELSE PositionalType(analysis_result, i)
          IN  /\ legal_articles[i].article_type = t
              /\ legal_articles[i].is_primary =
                    IF "is_primary" \in e.has THEN e.is_primary ELSE t = "utama"

\* C18: the persisted article_type is the explicit article_type when the key
\* is present with a non-empty value, else utama for positions below
\* len(pasal_utama) and alternatif for the others; is_primary is the
\* explicit is_primary when present, else true exactly when that
\* article_type is utama.
C18_TypeDerivation ==
    ~analysis_result.isNone =>
       \A i \in DOMAIN legal_articles :
          LET e == EntriesOf(analysis_result)[i]
              t == IF "article_type" \in e.has /\ e.article_type # "" THEN e.article_type
                   ELSE PositionalType(analysis_result, i)
          IN  /\ legal_articles[i].article_type = t
              /\ legal_articles[i].is_primary =
                    IF "is_primary" \in e.has THEN e.is_primary ELSE t = "utama"

\* the only primary entry says alternatif and is_primary itself and was
\* stored so; the entry of the alternative list has an empty article_type
\* and was stored as alternatif, not primary
C18_Witness ==
    /\ ~analysis_result.isNone
    /\ Len(analysis_result.content.pasal_utama) = 1
    /\ Len(legal_articles) = 2
    /\ legal_articles[1].pasal_number = "378"
    /\ legal_articles[1].article_type = "alternatif" /\ legal_articles[1].is_primary
    /\ legal_articles[2].pasal_number = "263"
    /\ legal_articles[2].article_type = "alternatif" /\ ~legal_articles[2].is_primary

\* C19: a pipeline run has sent no request before its analysis step and
\* exactly one after it, never more; when that request failed the analysis
\* is None and the run ends with the analysis-failure record.
C19_SingleRequest ==
    /\ inferCalls <= 1
    /\ (pc \in {"start", "extract", "create", "log_uploaded", "analyze"} => inferCalls = 0)
    /\ (pc \in {"analyzed", "articles", "recommendations", "finalize", "log_completed",
                 "summary"} => inferCalls = 1)
    /\ ((inferCalls >= 1 /\ ~response.ok)
          => /\ analysis_result.isNone
             /\ pc \in {"analyzed", "done"}
             /\ (pc = "done" => results = <<ResultFail("AI analysis failed")>>))

\* the single request failed and the run returned without another one
C19_Witness ==
    /\ pc = "done" /\ inferCalls = 1 /\ ~response.ok
    /\ analysis_result.isNone
    /\ results = <<ResultFail("AI analysis failed")>>

\* reply documents that are not well-formed
MalformedDocs ==
    { <<>>, <<"{", "k", ":", "1">>, <<"{", "k", "\n", "1", "}">>,
      <<"{", "k", ":", "1", ",", "}">>, <<"j", "s", "o", "n">> }

\* well-formed reply documents that are no object
NonObjectDocs == { <<"[", "1", "]">>, <<"k">> }

\* C20: one call of analyze never lets an exception out; it returns None
\* when the request failed, when the reply (bare or fenced) is not
\* well-formed, and when it is well-formed but no object; and what it
\* returns otherwise is the parsed form of a well-formed object.
C20_NeverRaises ==
    pc # "analyze"
    => /\ pc = "analyzed" /\ ~escaped /\ exc = NoExc
       /\ analysis_result.raised = ""
       /\ (~response.ok => analysis_result.isNone)
       /\ \A f \in FenceForms \cup {"plain", "plain_padded"},
             d \in MalformedDocs \cup NonObjectDocs :
             (response.ok /\ response.text = Wrap(f, d)) => analysis_result.isNone
       /\ (~analysis_result.isNone
             => /\ response.ok
                /\ analysis_result.doc \in {Tokens(d) : d \in StructuredDocs})

\* a fenced reply holding an array was answered with None
C20_Witness ==
    /\ pc = "analyzed" /\ response.ok
    /\ response.text = Wrap("json", <<"[", "1", "]">>)
    /\ analysis_result.isNone /\ analysis_result.raised = ""

\* C21: every result of analyze that is not None is the parsed reply with
\* its keys unchanged plus a metadata block that holds the duration of the
\* call as a non-negative integer, a timestamp, and the identifier of the
\* model the analyzer was constructed with.
C21_MetadataBlock ==
    (pc = "analyzed" /\ ~analysis_result.isNone)
    => /\ analysis_result.doc = json_loads(StripFence(Strip(response.text))).value
       /\ analysis_result.metadata.analysis_duration_seconds \in Nat
       /\ analysis_result.metadata.analyzed_at # ""
       /\ analysis_result.metadata.model = configured_model

\* C22: a rejected audit-log write (COMPLAINT_UPLOADED, ANALYSIS_COMPLETED,
\* PROCESSING_ERROR) never raises and changes nothing but the log: each
\* logging step leaves the run at the same position, with the same result
\* record, the same Complaint status and the same rows in the other four
\* tables, whether the log write was accepted or rejected, and a rejected
\* write adds no log row.
C22_LogFailureHarmless ==
    [][ /\ (pc = "log_uploaded" =>
              /\ pc' = "analyze"
              /\ UNCHANGED <<results, exc, escaped, complaints, analysis_results,
                             legal_articles, recommendations>>
              /\ analysis_logs' = IF "log_uploaded" \in faults' THEN analysis_logs
                                  ELSE Append(analysis_logs,
                                              LogEntry(complaint_id, 0, "COMPLAINT_UPLOADED",
                                                       "system", "PDF")))
        /\ (pc = "log_completed" =>
              /\ pc' = "summary"
              /\ UNCHANGED <<results, exc, escaped, complaints, analysis_results,
                             legal_articles, recommendations>>
              /\ analysis_logs' = IF "log_completed" \in faults' THEN analysis_logs
                                  ELSE Append(analysis_logs,
                                              LogEntry(complaint_id, analysis_id,
                                                       "ANALYSIS_COMPLETED", "system",
                                                       "Analysis ID")))
        /\ (pc = "handler" =>
              /\ pc' = "done"
              /\ results' = Append(results, ResultFail(exc.msg))
              /\ UNCHANGED <<exc, escaped, analysis_results, legal_articles,
                             recommendations>>
              /\ complaints' = IF complaint_id # 0 /\ "status_error" \notin faults'
                               THEN SetStatus(complaints, complaint_id, "error")
                               ELSE complaints
              /\ ("log_error" \in faults' => analysis_logs' = analysis_logs)) ]_vars

\* a run returned success with its row analyzed and all its rows stored
\* although both of its audit-log writes were rejected
C22_Witness ==
    /\ pc = "done" /\ Len(results) = 1 /\ results[1].success
    /\ {"log_uploaded", "log_completed"} \subseteq faults
    /\ analysis_logs = <<>>
    /\ complaints[1].status = "analyzed"
    /\ Len(analysis_results) = 1 /\ Len(legal_articles) = 1

\* C23: when a recovery write of the outer handler is rejected (the status
\* update to error, the PROCESSING_ERROR log, or both), nothing is raised
\* and the run returns the failure record whose error is the message of the
\* exception that brought it to the handler, never that of the rejected
\* recovery write.
C23_PrimaryErrorReported ==
    (/\ pc = "done" /\ exc # NoExc /\ complaint_id # 0
     /\ faults \cap {"status_error", "log_error"} # {})
    => /\ ~escaped
       /\ Len(results) = 1
       /\ ~results[1].success
       /\ results[1].error = exc.msg
       /\ ("status_error" \in faults => results[1].error # "complaints update rejected")
       /\ ("log_error" \in faults => results[1].error # "analysis_logs insert rejected")

\* the AnalysisResult insert was rejected, then the status update and the
\* log write of the handler were rejected too; the run reported the insert
C23_Witness ==
    /\ pc = "done" /\ exc = Exc("store", "analysis_results insert rejected")
    /\ {"create_analysis", "status_error", "log_error"} \subseteq faults
    /\ results = <<ResultFail("analysis_results insert rejected")>>
    /\ complaints[1].status = "processing"
    /\ analysis_logs = <<>>

\* C24: when the Complaint insert is rejected the run returns the failure
\* record carrying the message of that persistence error, attempts no
\* status update and no audit-log write, never calls the inference
\* endpoint, and leaves no row in any table.
C24_InsertFailure ==
    "create_complaint" \in faults
    => /\ complaint_id = 0
       /\ NoRows
       /\ inferCalls = 0
       /\ faults = {"create_complaint"}
       /\ pc \in {"handler", "done"}
       /\ (pc = "done" => /\ results = <<ResultFail("complaints insert rejected")>>
                          /\ ~escaped)

\* the insert was rejected after a successful extraction and the run returned
C24_Witness ==
    /\ pc = "done" /\ "create_complaint" \in faults
    /\ Truthy(extracted_text)
    /\ Len(results) = 1 /\ ~results[1].success

\* the error strings of the failure records process_complaint returns
PipelineErrors == PipelineOutcomes \ {"ok", "raised"}

\* C25 as stated: every response of /analyze holds a boolean success field,
\* and a response to a failed run holds the error string of the run under
\* the key error.
C25_Original ==
    \A r \in Requests :
       requests[r].pc = "done"
       => /\ "success" \in requests[r].resp.keys
          /\ (requests[r].result \in PipelineErrors => "error" \in requests[r].resp.keys)

\* C25: the response to a successful run is the 200 envelope with success
\* true, message, filename and result; the response to a run whose result
\* has success=false, like that to any other failure of the handler, is a
\* 500 whose body holds the single key detail and neither success nor
\* error, and for a failed run detail is the text "Gagal memproses file: "
\* followed by the error string of the run.
C25_ResponseShape ==
    \A r \in Requests :
       requests[r].pc = "done"
       => LET resp == requests[r].resp
          IN  /\ (requests[r].result = "ok" =>
                    /\ resp.status = 200 /\ resp.success
                    /\ resp.keys = {"success", "message", "filename", "result"})
              /\ (requests[r].result \in PipelineErrors =>
                    /\ resp.status = 500
                    /\ resp.keys = {"detail"}
                    /\ resp.detail = <<"Gagal memproses file: ", requests[r].result>>)
              /\ (requests[r].result \in {"", "raised"} =>
                    /\ resp.status = 500
                    /\ resp.keys = {"detail"}
                    /\ resp.detail[2] \notin PipelineErrors)

\* one request was answered with the success envelope, the other with the
\* 500 of a failed analysis
C25_Witness ==
    /\ requests[1].pc = "done" /\ requests[1].result = "ok"
    /\ requests[1].resp.status = 200
    /\ requests[2].pc = "done" /\ requests[2].result = "AI analysis failed"
    /\ requests[2].resp.status = 500 /\ requests[2].resp.keys = {"detail"}

\* C26: when a run in which a Complaint row was created returns, the row
\* has status analyzed if the result has success=true and status error if
\* it has success=false, also when the store rejected a status update.
C26_StatusMatchesResult ==
    (pc = "done" /\ complaint_id # 0 /\ Len(results) = 1)
    => /\ (results[1].success => complaints[complaint_id].status = "analyzed")
       /\ (~results[1].success => complaints[complaint_id].status = "error")

\* C28: for a parsed object whose nested blocks are absent or null the
\* mapping to the AnalysisResult row does not fail: no AttributeError
\* reaches the outer handler, and unless the store rejects the insert the
\* row is written with null in the columns of those blocks.
C28_NullBlocksMapped ==
    (/\ ~analysis_result.isNone
     /\ analysis_result.content.blocks \in {"absent", "null"}
     /\ pc \notin {"analyze", "analyzed"})
    => /\ exc.kind # "attribute"
       /\ ("create_analysis" \notin faults =>
              /\ Len(analysis_results) = 1
              /\ analysis_results[1].pelapor_nama = "NULL"
              /\ analysis_results[1].tingkat_urgensi = "NULL"
              /\ analysis_results[1].kelengkapan_laporan = "NULL")

\* the path lies below the temporary directory
InsideTemp(path) ==
    /\ Len(path) > Len(temp_dir)
    /\ SubSeq(path, 1, Len(temp_dir)) = temp_dir

\* C27: of two requests served side by side, each pipeline run reads the
\* bytes of its own upload: the file it saved is not removed, truncated or
\* overwritten by the other request before the run reads it, and no handle
\* is left writing to a file the other request removed.
C27_RequestsIsolated ==
    \A r \in Requests :
       /\ ~requests[r].unlinked
       /\ (requests[r].result # "" =>
              /\ requests[r].read = r
              /\ requests[r].result # "File not found")

\* C29: whatever the upload filename, the file the handler creates, hands
\* to the pipeline and removes lies below /tmp, and no file exists outside
\* that directory.
C29_InsideTempDir ==
    /\ \A r \in Requests : requests[r].saved => InsideTemp(TempFileOf(r))
    /\ \A p \in ServerPaths : fs[p].exists => InsideTemp(p)

====
